---- MODULE Spec2Model ----
(***************************************************************************)
(* Model of src/nlp_analysis.py: the sentiment and thematic analysis of    *)
(* app reviews (run_task2_analysis) and its helpers clean_text,            *)
(* get_sentiment and get_theme_map; and of src/load_db.py: the ingestion   *)
(* of the analyzed reviews into the database (ingestion).                  *)
(*                                                                         *)
(* Text is a sequence of one-character strings.  A cell value is a record  *)
(* [kind, val]: kind is the Python type ("str", "float" for NaN, "int")    *)
(* and val is what str(value) gives, as a character sequence.              *)
(* Compound scores are integers in units of 0.0001 (VADER rounds the       *)
(* compound score to four decimals).                                       *)
(***************************************************************************)
EXTENDS Integers, Sequences, FiniteSets, TLC

(* ------------------------------ bounds -------------------------------- *)
\* most pieces of a text handed to a direct call of clean_text
MaxPieces == 4
\* largest |compound score| handed to a direct call of get_sentiment
MaxAbsScore == 600
\* most rows of the input table
MaxRows == 7
\* most rows of the input table that differ from the common row
MaxOddRows == 2
\* largest entry of a factorization's matrices
MaxWeight == 1
\* direct calls of get_theme_map: topics, terms, and the largest weight
MaxTopics == 2
MaxTerms == 4
MaxTermWeight == 2
\* ingestion: the rows of data/analyzed_reviews.csv
MaxReviews == 2

(* --------------------------- configuration ---------------------------- *)
N_THEMES == 4
MIN_DF == 5
MAX_DF_PERCENT == 85
N_TOP_WORDS == 5
N_NAME_WORDS == 3
POSITIVE_THRESHOLD == 500
NEGATIVE_THRESHOLD == -500

(* ------------------------------ values -------------------------------- *)
Str(s) == [kind |-> "str", val |-> s]
NaN == [kind |-> "float", val |-> <<"n", "a", "n">>]
Int123 == [kind |-> "int", val |-> <<"1", "2", "3">>]
IsStr(v) == v.kind = "str"

LowerLetters ==
  <<"a", "b", "c", "d", "e", "f", "g", "h", "i", "j", "k", "l", "m",
    "n", "o", "p", "q", "r", "s", "t", "u", "v", "w", "x", "y", "z">>
UpperLetters ==
  <<"A", "B", "C", "D", "E", "F", "G", "H", "I", "J", "K", "L", "M",
    "N", "O", "P", "Q", "R", "S", "T", "U", "V", "W", "X", "Y", "Z">>
Whitespace == {" ", "\t"}

Range(s) == {s[i] : i \in DOMAIN s}
LowerLetterSet == Range(LowerLetters)
UpperLetterSet == Range(UpperLetters)
IsLowerLetter(c) == c \in LowerLetterSet
LetterIndex(letters, c) == CHOOSE i \in DOMAIN letters : letters[i] = c

\* str.lower() and str.upper() on one character
LowerChar(c) ==
  IF c \in UpperLetterSet THEN LowerLetters[LetterIndex(UpperLetters, c)] ELSE c
UpperChar(c) ==
  IF c \in LowerLetterSet THEN UpperLetters[LetterIndex(LowerLetters, c)] ELSE c

\* text.lower()
Lower(text) == [i \in DOMAIN text |-> LowerChar(text[i])]

\* re.sub(r'[^a-z\s]', '', text)
KeepLetter(c) == IsLowerLetter(c) \/ c \in Whitespace
StripNonLetters(text) == SelectSeq(text, KeepLetter)

\* text.split(): the maximal runs of non-whitespace characters
RECURSIVE SplitFrom(_, _, _, _)
SplitFrom(text, i, word, tokens) ==
  IF i > Len(text)
    THEN IF word = <<>> THEN tokens ELSE Append(tokens, word)
    ELSE IF text[i] \in Whitespace
      THEN SplitFrom(text, i + 1, <<>>,
                     IF word = <<>> THEN tokens ELSE Append(tokens, word))
      ELSE SplitFrom(text, i + 1, Append(word, text[i]), tokens)
Split(text) == SplitFrom(text, 1, <<>>, <<>>)

\* " ".join(tokens)
RECURSIVE Join(_)
Join(tokens) ==
  IF tokens = <<>> THEN <<>>
  ELSE IF Len(tokens) = 1 THEN tokens[1]
  ELSE tokens[1] \o <<" ">> \o Join(Tail(tokens))

\* stopwords.words('english'): the words of the list that the texts of the
\* model can form
ENGLISH_STOP_WORDS ==
  { <<"t">>, <<"s">>, <<"a">>, <<"i">>, <<"h", "e">>, <<"t", "h", "e">>,
    <<"t", "h", "e", "n">>, <<"i", "s">>, <<"i", "t">>, <<"a", "n">>,
    <<"a", "n", "d">>, <<"n", "o">>, <<"n", "o", "t">>, <<"o", "n">>,
    <<"s", "o">>, <<"t", "o">> }

KeepToken(word) == word \notin ENGLISH_STOP_WORDS /\ Len(word) > 2

\* a slip: the stop words are filtered before the characters are removed
CleanStrFilterFirst(text) ==
  StripNonLetters(Join(SelectSeq(Split(Lower(text)), KeepToken)))

\* the body of clean_text after the isinstance test
CleanStr(text) ==
  Join(SelectSeq(Split(StripNonLetters(Lower(text))), KeepToken))

clean_text(text) == IF ~IsStr(text) THEN Str(<<>>) ELSE Str(CleanStr(text.val))

\* a slip: > where the code has >=
get_sentiment_strict(compound_score) ==
  IF compound_score > POSITIVE_THRESHOLD THEN "Positive"
  ELSE IF compound_score <= NEGATIVE_THRESHOLD THEN "Negative"
  ELSE "Neutral"

get_sentiment(compound_score) ==
  IF compound_score >= POSITIVE_THRESHOLD THEN "Positive"
  ELSE IF compound_score <= NEGATIVE_THRESHOLD THEN "Negative"
  ELSE "Neutral"


(* --------------------------- the input file --------------------------- *)
ReviewText == "Review Text"
BankName == "Bank/App Name"
INPUT_COLUMNS == {ReviewText, "Rating", "Date", BankName, "Source"}

\* the fields pandas.read_csv reads as missing (its default na_values)
NA_VALUES ==
  { <<>>, <<"N", "A">>, <<"N", "/", "A">>, <<"n", "/", "a">>, <<"n", "a", "n">>,
    <<"N", "a", "N">>, <<"n", "u", "l", "l">>, <<"N", "U", "L", "L">> }

CBE == <<"C", "B", "E">>
BOA == <<"B", "O", "A">>
Crash == <<"C", "r", "a", "s", "h">>
GoodApp == <<"G", "o", "o", "d", " ", "a", "p", "p", " ", "2">>
PlayStore == <<"G", "o", "o", "g", "l", "e", " ", "P", "l", "a", "y">>
CrashApp == <<"C", "r", "a", "s", "h", " ", "a", "p", "p">>
App == <<"A", "p", "p">>
ItIs == <<"I", "t", " ", "i", "s">>

\* the cells (text, bank) of the common row and of the rows that differ from it
CommonCells == [text |-> Crash, bank |-> CBE]
OddCells ==
  { [text |-> <<>>, bank |-> CBE], [text |-> GoodApp, bank |-> CBE],
    [text |-> Crash, bank |-> BOA],
    [text |-> Crash, bank |-> <<"N", "A">>] }

\* row i of the file: the rating and the date are set by the position
CsvRow(i, cells) ==
  (ReviewText :> cells.text) @@ ("Rating" :> ((i - 1) % 5) + 1) @@ ("Date" :> i)
    @@ (BankName :> cells.bank) @@ ("Source" :> PlayStore)

\* the table of n rows whose rows in odd hold the cells f gives them; the
\* rows in odd are up to MaxOddRows of the first MaxOddRows + 1 rows
InputTable(n, odd, f) ==
  [i \in 1..n |-> CsvRow(i, IF i \in odd THEN f[i] ELSE CommonCells)]

\* the reviews of one bank that leave it a vocabulary of two terms: four of
\* both words, one of each word, and one of stop words only
MixedTexts == <<CrashApp, CrashApp, CrashApp, CrashApp, Crash, App, ItIs>>
MixedTable ==
  [i \in DOMAIN MixedTexts |-> CsvRow(i, [text |-> MixedTexts[i], bank |-> CBE])]

\* the file: missing, of no bytes, or a header line and a table
IsInputFile(file) ==
  \/ file = [state |-> "missing", rows |-> <<>>]
  \/ file = [state |-> "blank", rows |-> <<>>]
  \/ \E n \in 0..MaxRows :
       \E odd \in {S \in SUBSET (1..n) :
                       /\ Cardinality(S) <= MaxOddRows
                       /\ \A i \in S : i <= MaxOddRows + 1} :
         \E f \in [odd -> OddCells] :
           file = [state |-> "table", rows |-> InputTable(n, odd, f)]
  \/ file = [state |-> "table", rows |-> MixedTable]

(* ----------------------------- data frames ---------------------------- *)
\* a frame is a sequence of [index, cols]: the row's label and its columns
ReadCell(c) == IF c \in NA_VALUES THEN NaN ELSE Str(c)

\* pd.read_csv(INPUT_FILE) on a file with a header line
ReadCsvRow(r) ==
  (ReviewText :> ReadCell(r[ReviewText])) @@ (BankName :> ReadCell(r[BankName]))
    @@ ("Source" :> ReadCell(r["Source"])) @@ r
read_csv(rows) == [i \in DOMAIN rows |-> [index |-> i - 1, cols |-> ReadCsvRow(rows[i])]]

\* Series.astype(str) on one value
astype_str(v) == Str(v.val)

\* frame[column] = values, a value per row
WithColumn(frame, column, values) ==
  [i \in DOMAIN frame |->
     [index |-> frame[i].index, cols |-> (column :> values[i]) @@ frame[i].cols]]

\* frame[column].apply(f) is [i \in DOMAIN frame |-> f(Column(frame, column)[i])]
Column(frame, column) == [i \in DOMAIN frame |-> frame[i].cols[column]]

\* frame.drop(column, axis=1)
DropColumn(frame, column) ==
  [i \in DOMAIN frame |->
     [index |-> frame[i].index,
      cols |-> [c \in (DOMAIN frame[i].cols) \ {column} |-> frame[i].cols[c]]]]

\* the elementwise == of pandas: NaN equals nothing, itself included
ValueEq(a, b) == IsStr(a) /\ IsStr(b) /\ a.val = b.val

\* Series.unique(): the distinct values in order of first appearance, the
\* missing value once
SameValue(a, b) == a = b
RECURSIVE UniqueFrom(_, _, _)
UniqueFrom(frame, i, seen) ==
  IF i > Len(frame) THEN seen
  ELSE UniqueFrom(frame, i + 1,
                  IF \E k \in DOMAIN seen : SameValue(seen[k], frame[i].cols[BankName])
                    THEN seen ELSE Append(seen, frame[i].cols[BankName]))
unique(frame) == UniqueFrom(frame, 1, <<>>)

\* df[df['Bank/App Name'] == bank].copy()
IsOfBank(row, bank) == ValueEq(row.cols[BankName], bank)
RECURSIVE SelectBankFrom(_, _, _)
SelectBankFrom(frame, i, bank) ==
  IF i > Len(frame) THEN <<>>
  ELSE (IF IsOfBank(frame[i], bank) THEN <<frame[i]>> ELSE <<>>)
         \o SelectBankFrom(frame, i + 1, bank)
SelectBank(frame, bank) == SelectBankFrom(frame, 1, bank)

\* pd.concat(frames, ignore_index=True): the rows in list order, relabelled
RECURSIVE Flatten(_)
Flatten(frames) ==
  IF frames = <<>> THEN <<>> ELSE frames[1] \o Flatten(Tail(frames))
concat_ignore_index(frames) ==
  LET rows == Flatten(frames)
  IN [i \in DOMAIN rows |-> [index |-> i - 1, cols |-> rows[i].cols]]

\* to_csv(OUTPUT_FILE, index=False): the columns of every row, no label
to_csv(frame) == [i \in DOMAIN frame |-> frame[i].cols]


(* ------------------------- sentiment (VADER) -------------------------- *)
\* analyzer.polarity_scores(x)['compound'] on the texts of the model: the
\* valence of "crash" is -1.7 and of "good" 1.9, normalised by
\* v / sqrt(v * v + 15); a text with no word of the lexicon scores 0
polarity_compound(text) ==
  CASE text.val = Crash -> -4019
    [] text.val = CrashApp -> -4019
    [] text.val = GoodApp -> 4404
    [] OTHER -> 0

(* ------------------------ TfidfVectorizer ----------------------------- *)
\* the analyzer: the tokens of two characters or more, and the 1- and 2-grams
Tokens(doc) == SelectSeq(Split(doc), LAMBDA w : Len(w) >= 2)
NGrams(doc) ==
  LET t == Tokens(doc)
  IN {t[i] : i \in DOMAIN t}
       \cup {t[i] \o <<" ">> \o t[i + 1] : i \in 1..(Len(t) - 1)}
\* the n-grams of every document
Grams(docs) == [i \in DOMAIN docs |-> NGrams(docs[i])]
DocFreq(term, grams) == Cardinality({i \in DOMAIN grams : term \in grams[i]})

\* the order of sorted(): by code point, the space before the letters
CharOrd(c) == IF IsLowerLetter(c) THEN LetterIndex(LowerLetters, c) ELSE 0
RECURSIVE LexLess(_, _)
LexLess(a, b) ==
  IF a = <<>> THEN b # <<>>
  ELSE IF b = <<>> THEN FALSE
  ELSE IF CharOrd(a[1]) # CharOrd(b[1]) THEN CharOrd(a[1]) < CharOrd(b[1])
  ELSE LexLess(Tail(a), Tail(b))
RECURSIVE Sorted(_)
Sorted(terms) ==
  IF terms = {} THEN <<>>
  ELSE LET least == CHOOSE t \in terms : \A u \in terms \ {t} : LexLess(t, u)
       IN <<least>> \o Sorted(terms \ {least})

\* a slip: max_df left at its default of 1.0
KeptTermsAnyMaxDf(grams, min_df) ==
  {t \in UNION {grams[i] : i \in DOMAIN grams} : DocFreq(t, grams) >= min_df}

\* the terms that min_df and max_df keep
KeptTerms(grams, min_df) ==
  {t \in UNION {grams[i] : i \in DOMAIN grams} :
     LET n == DocFreq(t, grams)
     IN n >= min_df /\ 100 * n <= MAX_DF_PERCENT * Len(grams)}

\* TfidfVectorizer(max_df=0.85, min_df=min_df, ngram_range=(1, 2))
\* .fit_transform(docs): a ValueError, or the sorted vocabulary
Vectorize(docs, min_df) ==
  LET grams == Grams(docs)
      kept == KeptTerms(grams, min_df)
  IN IF \A i \in DOMAIN grams : grams[i] = {}
       THEN [error |-> "ValueError", feature_names |-> <<>>]
     ELSE IF MAX_DF_PERCENT * Len(docs) < 100 * min_df
       THEN [error |-> "ValueError", feature_names |-> <<>>]
     ELSE IF kept = {}
       THEN [error |-> "ValueError", feature_names |-> <<>>]
     ELSE [error |-> "none", feature_names |-> Sorted(kept)]

fit_transform(docs) == Vectorize(docs, MIN_DF)

\* bank_df['Cleaned Text']
CleanedDocs(frame) == [i \in DOMAIN frame |-> frame[i].cols["Cleaned Text"].val]

(* ------------------------------- NMF ---------------------------------- *)
\* The factorization is numerical code outside the repository: its two
\* results are any matrices of non-negative entries of the right shape.
Weights == 0..MaxWeight
Topics == 0..(N_THEMES - 1)
\* nmf.components_ (a row of weights over the vocabulary per topic)
ComponentsOf(n_features) == [Topics -> [1..n_features -> Weights]]
\* a row of topic_weights
TopicWeightRows == [Topics -> Weights]

\* topic.argsort(): the indices by ascending weight.  The default kind of
\* numpy's argsort is not a stable sort, so the order of indices of equal
\* weight is any order: the operator is the set of the results it can give.
RECURSIVE ArgSortFrom(_, _)
ArgSortFrom(topic, left) ==
  IF left = {} THEN {<<>>}
  ELSE LET least == {i \in left : \A j \in left : topic[i] <= topic[j]}
       IN UNION {{<<i>> \o rest : rest \in ArgSortFrom(topic, left \ {i})} :
                   i \in least}
argsort(topic) == ArgSortFrom(topic, DOMAIN topic)

\* a slip: order[:n], the first n entries
FirstInOrder(order, n) ==
  [j \in 1..(IF n < Len(order) THEN n ELSE Len(order)) |-> order[j]]

\* order[:-n - 1:-1]: the last n entries, last first
LastReversed(order, n) ==
  [j \in 1..(IF n < Len(order) THEN n ELSE Len(order)) |-> order[Len(order) - j + 1]]

\* str.title() on letters and spaces
Title(s) ==
  [i \in DOMAIN s |->
     IF i = 1 \/ s[i - 1] \in Whitespace THEN UpperChar(s[i]) ELSE LowerChar(s[i])]

\* [feature_names[i] for i in topic.argsort()[:-n_top_words - 1:-1]], for
\* each result of argsort
TopWords(topic, feature_names) ==
  {[j \in DOMAIN top |-> feature_names[top[j]]] :
     top \in {LastReversed(order, N_TOP_WORDS) : order \in argsort(topic)}}

\* " ".join(top_words[:3]).title(), for each top_words
ThemeName(topic, feature_names) ==
  {Title(Join(SubSeq(top_words, 1,
                     IF Len(top_words) < N_NAME_WORDS THEN Len(top_words)
                     ELSE N_NAME_WORDS))) :
     top_words \in TopWords(topic, feature_names)}

\* the tables that give each key one of its names
RECURSIVE ThemeMaps(_, _)
ThemeMaps(names, keys) ==
  IF keys = {} THEN {<<>>}
  ELSE LET key == CHOOSE k \in keys : \A j \in keys : k <= j
           rest == ThemeMaps(names, keys \ {key})
       IN {(key :> name) @@ others : name \in names[key], others \in rest}

\* a slip: the table keyed 1..K, as the themes are printed
get_theme_map_from_one(components, feature_names) ==
  ThemeMaps([t \in {k + 1 : k \in DOMAIN components} |->
               ThemeName(components[t - 1], feature_names)],
            {k + 1 : k \in DOMAIN components})

\* the tables get_theme_map can return: a name for every topic_idx of
\* enumerate(model.components_)
get_theme_map(components, feature_names) ==
  ThemeMaps([topic_idx \in DOMAIN components |->
               ThemeName(components[topic_idx], feature_names)],
            DOMAIN components)

\* a slip: the last index of the largest entry
argmax_last(row) ==
  CHOOSE k \in DOMAIN row :
    /\ \A j \in DOMAIN row : row[j] <= row[k]
    /\ \A j \in DOMAIN row : row[j] = row[k] => j <= k

\* np.argmax(row): the first index of the largest entry
argmax(row) ==
  CHOOSE k \in DOMAIN row :
    /\ \A j \in DOMAIN row : row[j] <= row[k]
    /\ \A j \in DOMAIN row : row[j] = row[k] => k <= j

\* Series.map(theme_map) on one value: a key the table lacks gives NaN
MapTheme(theme_map, idx) ==
  IF idx \in DOMAIN theme_map THEN Str(theme_map[idx]) ELSE NaN

FALLBACK_THEME ==
  Str(<<"G", "e", "n", "e", "r", "a", "l", "/", "N", "o", "t", " ", "E", "n", "o",
        "u", "g", "h", " ", "D", "a", "t", "a">>)


(* ------------------------------ state --------------------------------- *)
VARIABLES
  call,           \* the function called: run_task2_analysis, clean_text,
                  \* get_sentiment, get_theme_map, ingestion
  pc,             \* where the call stands
  arg, ret, ret2, \* a direct call's argument and results
  input_file,     \* data/processed_data.csv
  df,             \* the frame read from it
  banks,          \* df['Bank/App Name'].unique()
  bank_i,         \* the position of the loop in banks
  bank_df,        \* the rows of the current bank
  feature_names,  \* the vocabulary of the current bank
  theme_map,      \* the theme names of the current bank
  doc_i,          \* the row of bank_df whose theme is assigned next
  topic_weights,  \* the row of nmf.transform(dtm) of the row being assigned
  analyzed_data,  \* the frames of the banks done
  nmf_fitted,     \* the banks NMF was fitted for
  final_df,       \* the concatenated frame
  written,        \* what was written to data/analyzed_reviews.csv, write by write
  error_printed,  \* the function printed its error message
  raised,         \* the exception that left the function, or "none"
  DB_PARAMS,      \* ingestion: whether every value of DB_PARAMS is set
  analyzed_file,  \* ingestion: data/analyzed_reviews.csv
  database,       \* ingestion: what the server holds committed
  database_before,\* ingestion: what it held when ingestion() was called
  conn,           \* ingestion: the connection and what its transaction sees
  ingestion_df,   \* ingestion: df
  bank_id_map,    \* insert_reviews: bank_id_map
  records,        \* insert_reviews: records
  inserted,       \* insert_reviews: the records executemany has inserted
  exc             \* ingestion: the exception being handled, or "none"

vars ==
  <<call, pc, arg, ret, ret2, input_file, df, banks, bank_i, bank_df, feature_names,
    theme_map, doc_i, topic_weights, analyzed_data, nmf_fitted, final_df, written,
    error_printed, raised, DB_PARAMS, analyzed_file, database, database_before, conn,
    ingestion_df, bank_id_map, records, inserted, exc>>

run_vars ==
  <<input_file, df, banks, bank_i, bank_df, feature_names, theme_map, doc_i,
    topic_weights,
    analyzed_data, nmf_fitted, final_df, written, error_printed, raised>>

ingestion_vars ==
  <<DB_PARAMS, analyzed_file, database, database_before, conn, ingestion_df,
    bank_id_map, records, inserted, exc>>

None == [kind |-> "NoneType", val |-> <<"N", "o", "n", "e">>]

\* the texts handed to a direct call of clean_text: up to MaxPieces pieces,
\* one after the other
TextPieces ==
  { <<"T">>, <<"h", "e">>, <<"t", "e", "n">>, <<" ">>, <<"\t">>, <<"1">> }
RECURSIVE Concat(_)
Concat(pieces) == IF pieces = <<>> THEN <<>> ELSE pieces[1] \o Concat(Tail(pieces))
TextArgs ==
  {Str(Concat(p)) : p \in UNION {[1..n -> TextPieces] : n \in 0..MaxPieces}}
    \cup {NaN, Int123, None}

\* the models and vocabularies handed to a direct call of get_theme_map: a
\* vocabulary as the vectorizer gives it, sorted, of up to MaxTerms terms, and
\* up to MaxTopics rows of weights; row t is the first row with t * i added
\* to its entry i, within the weights, so that every row of weights is the
\* row of every topic in some model
Vocabulary ==
  << <<"a", "p", "p">>, <<"a", "p", "p", " ", "c", "r", "a", "s", "h">>,
     <<"b", "a", "d">>, <<"c", "r", "a", "s", "h">>, <<"g", "o", "o", "d">>,
     <<"s", "l", "o", "w">> >>
Shifted(row, t) == [i \in DOMAIN row |-> (row[i] + t * i) % (MaxTermWeight + 1)]
ThemeMapArgs ==
  UNION {{[components |-> [t \in 0..(K - 1) |-> Shifted(row, t)],
           feature_names |-> SubSeq(Vocabulary, 1, F)] :
            row \in [1..F -> 0..MaxTermWeight], K \in 1..MaxTopics} :
         F \in 1..MaxTerms}

\* --- ingestion: its inputs ---
\* what the server holds: the tables of SCHEMA_SQL once created, the rows of
\* banks in the order of their bank_id, and the rows of reviews
EmptyDatabase == [tables |-> FALSE, banks |-> <<>>, reviews |-> <<>>]
IntValue(n) == [kind |-> "int", val |-> n]
\* the server after an earlier run that stored one review of CBE
EarlierDatabase ==
  [tables |-> TRUE, banks |-> <<Str(CBE)>>,
   reviews |-> <<[bank_id |-> 1, review_text |-> Str(Crash), rating |-> 5]>>]
\* a row of data/analyzed_reviews.csv as read_csv gives it: a review of
\* either bank, and one with no text, with no rating, with a rating the
\* CHECK of the reviews table refuses
ReviewRows ==
  { [bank |-> Str(CBE), text |-> Str(Crash), rating |-> IntValue(5)],
    [bank |-> Str(BOA), text |-> Str(Crash), rating |-> IntValue(1)],
    [bank |-> Str(CBE), text |-> NaN, rating |-> IntValue(5)],
    [bank |-> Str(CBE), text |-> Str(Crash), rating |-> NaN],
    [bank |-> Str(CBE), text |-> Str(Crash), rating |-> IntValue(6)] }
IsAnalyzedFile(file) ==
  \/ file = [state |-> "missing", rows |-> <<>>]
  \/ \E n \in 0..MaxReviews : \E rows \in [1..n -> ReviewRows] :
       file = [state |-> "table", rows |-> rows]
NoConnection == [state |-> "None", view |-> EmptyDatabase]

\* the state of ingestion's variables before conn = None
InitIngestion ==
  /\ conn = NoConnection
  /\ ingestion_df = <<>>
  /\ bank_id_map = <<>>
  /\ records = <<>>
  /\ inserted = 0
  /\ exc = "none"
  /\ database_before = database

\* no call of ingestion
NoIngestion ==
  /\ DB_PARAMS = FALSE
  /\ analyzed_file = [state |-> "missing", rows |-> <<>>]
  /\ database = EmptyDatabase
  /\ InitIngestion

InitRun ==
  /\ df = <<>>
  /\ banks = <<>>
  /\ bank_i = 1
  /\ bank_df = <<>>
  /\ feature_names = <<>>
  /\ theme_map = <<>>
  /\ doc_i = 1
  /\ topic_weights = <<>>
  /\ analyzed_data = <<>>
  /\ nmf_fitted = {}
  /\ final_df = <<>>
  /\ written = <<>>
  /\ error_printed = FALSE
  /\ raised = "none"

Init ==
  /\ pc = "called"
  /\ ret = None
  /\ ret2 = None
  /\ \/ /\ call = "run_task2_analysis"
        /\ arg = None
        /\ IsInputFile(input_file)
        /\ InitRun
        /\ NoIngestion
     \/ /\ call = "clean_text"
        /\ arg \in TextArgs
        /\ input_file = [state |-> "missing", rows |-> <<>>]
        /\ InitRun
        /\ NoIngestion
     \/ /\ call = "get_sentiment"
        /\ arg \in (-MaxAbsScore)..MaxAbsScore
        /\ input_file = [state |-> "missing", rows |-> <<>>]
        /\ InitRun
        /\ NoIngestion
     \/ /\ call = "get_theme_map"
        /\ arg \in ThemeMapArgs
        /\ input_file = [state |-> "missing", rows |-> <<>>]
        /\ InitRun
        /\ NoIngestion
     \/ /\ call = "ingestion"
        /\ arg = None
        /\ input_file = [state |-> "missing", rows |-> <<>>]
        /\ InitRun
        /\ DB_PARAMS \in BOOLEAN
        /\ IsAnalyzedFile(analyzed_file)
        /\ database \in {EmptyDatabase, EarlierDatabase}
        /\ InitIngestion

(* --------------------------- direct calls ----------------------------- *)
\* clean_text(arg), and clean_text of its result
CallCleanText ==
  /\ call = "clean_text"
  /\ pc = "called"
  /\ ret' = clean_text(arg)
  /\ pc' = "returned"
  /\ UNCHANGED <<call, arg, ret2, run_vars, ingestion_vars>>

CallCleanTextAgain ==
  /\ call = "clean_text"
  /\ pc = "returned"
  /\ ret2' = clean_text(ret)
  /\ pc' = "returned twice"
  /\ UNCHANGED <<call, arg, ret, run_vars, ingestion_vars>>

\* get_sentiment(arg)
CallGetSentiment ==
  /\ call = "get_sentiment"
  /\ pc = "called"
  /\ ret' = get_sentiment(arg)
  /\ pc' = "returned"
  /\ UNCHANGED <<call, arg, ret2, run_vars, ingestion_vars>>


\* get_theme_map(arg.components, arg.feature_names)
CallGetThemeMap ==
  /\ call = "get_theme_map"
  /\ pc = "called"
  /\ ret' \in get_theme_map(arg.components, arg.feature_names)
  /\ pc' = "returned"
  /\ UNCHANGED <<call, arg, ret2, run_vars, ingestion_vars>>

(* ------------------------ run_task2_analysis -------------------------- *)
probe_vars == <<call, arg, ret, ret2>>

\* pd.read_csv(INPUT_FILE) and df['Review Text'].astype(str)
LoadCsv ==
  /\ call = "run_task2_analysis"
  /\ pc = "called"
  /\ \/ /\ input_file.state = "missing"
        /\ error_printed' = TRUE
        /\ pc' = "returned"
        /\ UNCHANGED <<df, raised>>
     \/ /\ input_file.state = "blank"
        /\ raised' = "EmptyDataError"
        /\ pc' = "raised"
        /\ UNCHANGED <<df, error_printed>>
     \/ /\ input_file.state = "table"
        /\ LET read == read_csv(input_file.rows)
           IN df' = WithColumn(read, ReviewText,
                               [i \in DOMAIN read |->
                                  astype_str(Column(read, ReviewText)[i])])
        /\ pc' = "sentiment"
        /\ UNCHANGED <<error_printed, raised>>
  /\ UNCHANGED <<probe_vars, ingestion_vars, topic_weights, input_file, banks,
                 bank_i, bank_df, feature_names, theme_map, doc_i,
                 analyzed_data, nmf_fitted, final_df, written>>

\* the columns Compound Score and Sentiment
SentimentAnalysis ==
  /\ pc = "sentiment"
  /\ LET scored == WithColumn(df, "Compound Score",
                              [i \in DOMAIN df |->
                                 polarity_compound(Column(df, ReviewText)[i])])
     IN df' = WithColumn(scored, "Sentiment",
                         [i \in DOMAIN df |->
                            get_sentiment(Column(scored, "Compound Score")[i])])
  /\ pc' = "clean"
  /\ UNCHANGED <<probe_vars, ingestion_vars, topic_weights, input_file, banks,
                 bank_i, bank_df, feature_names, theme_map, doc_i,
                 analyzed_data, nmf_fitted, final_df, written, error_printed,
                 raised>>

\* the column Cleaned Text; analyzed_data = []; the banks to loop over
CleanColumn ==
  /\ pc = "clean"
  /\ df' = WithColumn(df, "Cleaned Text",
                      [i \in DOMAIN df |-> clean_text(Column(df, ReviewText)[i])])
  /\ analyzed_data' = <<>>
  /\ banks' = unique(df)
  /\ bank_i' = 1
  /\ pc' = "loop"
  /\ UNCHANGED <<probe_vars, ingestion_vars, topic_weights, input_file, bank_df,
                 feature_names, theme_map, doc_i, nmf_fitted, final_df, written,
                 error_printed, raised>>

\* a slip: the frame put at the head of the list
PrependFrame(frames, frame) == <<frame>> \o frames

\* analyzed_data.append(frame)
AppendFrame(frames, frame) == Append(frames, frame)

\* a slip: the vectorizer fitted on the reviews of every bank
WholeFrame(frame, bank) == frame

\* the rows the vectorizer of a bank is fitted on
BankFrame(frame, bank) == SelectBank(frame, bank)

\* one round of the loop up to the vectorizer: the fallback theme on a
\* ValueError, the vocabulary otherwise
AnalyzeBank ==
  /\ pc = "loop"
  /\ bank_i <= Len(banks)
  /\ LET bank == banks[bank_i]
         frame == SelectBank(df, bank)
         fitted == fit_transform(CleanedDocs(BankFrame(df, bank)))
     IN \/ /\ fitted.error = "ValueError"
           /\ bank_df' = WithColumn(frame, "Theme",
                                    [i \in DOMAIN frame |-> FALLBACK_THEME])
           /\ analyzed_data' = AppendFrame(analyzed_data, bank_df')
           /\ bank_i' = bank_i + 1
           /\ pc' = "loop"
           /\ UNCHANGED feature_names
        \/ /\ fitted.error = "none"
           /\ bank_df' = frame
           /\ feature_names' = fitted.feature_names
           /\ pc' = "nmf"
           /\ UNCHANGED <<analyzed_data, bank_i>>
  /\ UNCHANGED <<probe_vars, ingestion_vars, topic_weights, input_file, df,
                 banks, theme_map, doc_i, nmf_fitted, final_df, written,
                 error_printed, raised>>

\* nmf.fit(dtm) and get_theme_map(nmf, feature_names)
FitNMF ==
  /\ pc = "nmf"
  /\ theme_map' \in UNION {get_theme_map(components, feature_names) :
                             components \in ComponentsOf(Len(feature_names))}
  /\ nmf_fitted' = nmf_fitted \cup {banks[bank_i]}
  /\ doc_i' = 1
  /\ pc' = "assign"
  /\ UNCHANGED <<probe_vars, ingestion_vars, topic_weights, input_file, df,
                 banks, bank_i, bank_df, feature_names, analyzed_data, final_df,
                 written, error_printed, raised>>

\* the columns Theme_Index and Theme are set row by row.
\* one row of nmf.transform(dtm) and its argmax as Theme_Index
DominantTopic ==
  /\ pc = "assign"
  /\ doc_i <= Len(bank_df)
  /\ topic_weights = <<>>
  /\ topic_weights' \in TopicWeightRows
  /\ bank_df' = [bank_df EXCEPT
                   ![doc_i].cols = ("Theme_Index" :> argmax(topic_weights')) @@ @]
  /\ UNCHANGED <<probe_vars, ingestion_vars, pc, input_file, df, banks, bank_i,
                 feature_names, theme_map, doc_i, analyzed_data, nmf_fitted,
                 final_df, written, error_printed, raised>>

\* the Theme of the row mapped from its Theme_Index, and Theme_Index dropped
AssignTheme ==
  /\ pc = "assign"
  /\ doc_i <= Len(bank_df)
  /\ topic_weights # <<>>
  /\ LET cols == bank_df[doc_i].cols
         Theme == MapTheme(theme_map, cols["Theme_Index"])
     IN bank_df' = [bank_df EXCEPT
                     ![doc_i].cols = ("Theme" :> Theme)
                                       @@ [c \in DOMAIN cols \ {"Theme_Index"} |-> cols[c]]]
  /\ doc_i' = doc_i + 1
  /\ topic_weights' = <<>>
  /\ UNCHANGED <<probe_vars, ingestion_vars, pc, input_file, df, banks, bank_i,
                 feature_names, theme_map, analyzed_data, nmf_fitted, final_df,
                 written, error_printed, raised>>

\* analyzed_data.append(bank_df) at the end of a round
AppendBank ==
  /\ pc = "assign"
  /\ doc_i > Len(bank_df)
  /\ analyzed_data' = AppendFrame(analyzed_data, bank_df)
  /\ bank_i' = bank_i + 1
  /\ pc' = "loop"
  /\ UNCHANGED <<probe_vars, ingestion_vars, topic_weights, input_file, df,
                 banks, bank_df, feature_names, theme_map, doc_i, nmf_fitted,
                 final_df, written, error_printed, raised>>

\* pd.concat, the drop of Cleaned Text and to_csv; pd.concat([]) is a ValueError
SaveResults ==
  /\ pc = "loop"
  /\ bank_i > Len(banks)
  /\ \/ /\ analyzed_data = <<>>
        /\ raised' = "ValueError"
        /\ pc' = "raised"
        /\ UNCHANGED <<final_df, written>>
     \/ /\ analyzed_data # <<>>
        /\ final_df' = DropColumn(concat_ignore_index(analyzed_data), "Cleaned Text")
        /\ written' = Append(written, to_csv(final_df'))
        /\ pc' = "done"
        /\ UNCHANGED raised
  /\ UNCHANGED <<probe_vars, ingestion_vars, topic_weights, input_file, df,
                 banks, bank_i, bank_df, feature_names, theme_map, doc_i,
                 analyzed_data, nmf_fitted, error_printed>>

(* ----------------------------- ingestion ------------------------------ *)
\* df.dropna(subset=['Review Text'])
dropna(rows) == SelectSeq(rows, LAMBDA row : IsStr(row.text))

\* df['Bank/App Name'].unique()
RECURSIVE UniqueBanksFrom(_, _)
UniqueBanksFrom(rows, seen) ==
  IF rows = <<>> THEN <<>>
  ELSE IF rows[1].bank \in seen THEN UniqueBanksFrom(Tail(rows), seen)
  ELSE <<rows[1].bank>> \o UniqueBanksFrom(Tail(rows), seen \cup {rows[1].bank})
UniqueBanks(rows) == UniqueBanksFrom(rows, {})

\* a slip: conn.autocommit = True, every statement committed as it is executed
AutoCommitted(committed, view) == view

\* conn.autocommit = False: what the server holds committed after a statement
\* of the transaction
AfterStatement(committed, view) == committed

\* the exceptions a statement sent to the server can end in: the connection
\* lost, or another psycopg2.Error
StatementErrors == {"OperationalError", "Error"}

\* raise inside the try block of ingestion
Raise(e) ==
  /\ exc' = e
  /\ pc' = "except"

\* if not all(DB_PARAMS.values()): print and return
CheckCredentials ==
  /\ call = "ingestion"
  /\ pc = "called"
  /\ pc' = IF DB_PARAMS THEN "read_csv" ELSE "returned"
  /\ UNCHANGED <<probe_vars, run_vars, ingestion_vars>>

\* df = pd.read_csv(INPUT_FILE); df = df.dropna(subset=['Review Text'])
ReadAnalyzed ==
  /\ pc = "read_csv"
  /\ \/ /\ analyzed_file.state = "missing"
        /\ Raise("FileNotFoundError")
        /\ UNCHANGED ingestion_df
     \/ /\ analyzed_file.state = "table"
        /\ ingestion_df' = dropna(analyzed_file.rows)
        /\ pc' = "connect"
        /\ UNCHANGED exc
  /\ UNCHANGED <<probe_vars, run_vars, DB_PARAMS, analyzed_file, database,
                 database_before, conn, bank_id_map, records, inserted>>

\* conn = psycopg2.connect(**DB_PARAMS); conn.autocommit = False;
\* cursor = conn.cursor()
Connect ==
  /\ pc = "connect"
  /\ \/ /\ Raise("OperationalError")
        /\ UNCHANGED conn
     \/ /\ conn' = [state |-> "open", view |-> database]
        /\ pc' = "create_tables"
        /\ UNCHANGED exc
  /\ UNCHANGED <<probe_vars, run_vars, DB_PARAMS, analyzed_file, database,
                 database_before, ingestion_df, bank_id_map, records, inserted>>

\* create_tables(cursor): CREATE TABLE IF NOT EXISTS banks, reviews; a
\* psycopg2.Error is printed and raised again
CreateTables ==
  /\ pc = "create_tables"
  /\ \/ /\ \E e \in StatementErrors : Raise(e)
        /\ UNCHANGED <<conn, database, bank_id_map>>
     \/ /\ conn' = [conn EXCEPT !.view.tables = TRUE]
        /\ database' = AfterStatement(database, conn'.view)
        /\ bank_id_map' = <<>>
        /\ pc' = "insert_bank"
        /\ UNCHANGED exc
  /\ UNCHANGED <<probe_vars, run_vars, DB_PARAMS, analyzed_file, database_before,
                 ingestion_df, records, inserted>>

\* the position of a bank in the rows of banks, its bank_id, or 0
RECURSIVE BankId(_, _)
BankId(bank_rows, bank) ==
  IF bank_rows = <<>> THEN 0
  ELSE IF bank_rows[Len(bank_rows)] = bank THEN Len(bank_rows)
  ELSE BankId(SubSeq(bank_rows, 1, Len(bank_rows) - 1), bank)

\* one round of the loop over the banks in insert_reviews:
\* insert_bank_if_not_exists(cursor, bank, ...), the bank_id selected or the
\* bank inserted; a psycopg2.Error is printed and raised again
InsertBank ==
  /\ pc = "insert_bank"
  /\ LET unique_banks == UniqueBanks(ingestion_df)
         done == Cardinality(DOMAIN bank_id_map)
     IN /\ done < Len(unique_banks)
        /\ LET bank == unique_banks[done + 1]
               found == BankId(conn.view.banks, bank)
           IN \/ /\ \E e \in StatementErrors : Raise(e)
                 /\ UNCHANGED <<conn, database, bank_id_map>>
              \/ /\ found # 0
                 /\ bank_id_map' = (bank :> found) @@ bank_id_map
                 /\ UNCHANGED <<conn, database, pc, exc>>
              \/ /\ found = 0
                 /\ conn' = [conn EXCEPT !.view.banks = Append(@, bank)]
                 /\ database' = AfterStatement(database, conn'.view)
                 /\ bank_id_map' = (bank :> Len(conn'.view.banks)) @@ bank_id_map
                 /\ UNCHANGED <<pc, exc>>
  /\ UNCHANGED <<probe_vars, run_vars, DB_PARAMS, analyzed_file, database_before,
                 ingestion_df, records, inserted>>

\* the loop over df.iterrows() in insert_reviews: int(row['Rating']) of a
\* missing rating is a ValueError
BuildRecords ==
  /\ pc = "insert_bank"
  /\ Cardinality(DOMAIN bank_id_map) = Len(UniqueBanks(ingestion_df))
  /\ \/ /\ \E i \in DOMAIN ingestion_df : ingestion_df[i].rating.kind = "float"
        /\ Raise("ValueError")
        /\ UNCHANGED <<records, inserted>>
     \/ /\ \A i \in DOMAIN ingestion_df : ingestion_df[i].rating.kind = "int"
        /\ records' = [i \in DOMAIN ingestion_df |->
                         [bank_id |-> bank_id_map[ingestion_df[i].bank],
                          review_text |-> ingestion_df[i].text,
                          rating |-> ingestion_df[i].rating.val]]
        /\ inserted' = 0
        /\ pc' = "executemany"
        /\ UNCHANGED exc
  /\ UNCHANGED <<probe_vars, run_vars, DB_PARAMS, analyzed_file, database,
                 database_before, conn, ingestion_df, bank_id_map>>

\* cursor.executemany(insert_query, records), record by record: the CHECK on
\* rating refuses a record; a psycopg2.Error is printed and raised again
ExecuteMany ==
  /\ pc = "executemany"
  /\ inserted < Len(records)
  /\ LET record == records[inserted + 1]
     IN \/ /\ \E e \in StatementErrors : Raise(e)
           /\ UNCHANGED <<conn, database, inserted>>
        \/ /\ record.rating \notin 1..5
           /\ Raise("Error")
           /\ UNCHANGED <<conn, database, inserted>>
        \/ /\ record.rating \in 1..5
           /\ conn' = [conn EXCEPT !.view.reviews = Append(@, record)]
           /\ database' = AfterStatement(database, conn'.view)
           /\ inserted' = inserted + 1
           /\ UNCHANGED <<pc, exc>>
  /\ UNCHANGED <<probe_vars, run_vars, DB_PARAMS, analyzed_file, database_before,
                 ingestion_df, bank_id_map, records>>

\* conn.commit() after insert_reviews has returned
Commit ==
  /\ pc = "executemany"
  /\ inserted = Len(records)
  /\ \/ /\ \E e \in StatementErrors : Raise(e)
        /\ UNCHANGED database
     \/ /\ database' = conn.view
        /\ pc' = "finally"
        /\ UNCHANGED exc
  /\ UNCHANGED <<probe_vars, run_vars, DB_PARAMS, analyzed_file, database_before,
                 conn, ingestion_df, bank_id_map, records, inserted>>

\* the except clauses: FileNotFoundError and psycopg2.OperationalError are
\* printed; any other exception is printed and, if conn, conn.rollback()
Except ==
  /\ pc = "except"
  /\ conn' = IF exc \notin {"FileNotFoundError", "OperationalError"}
                  /\ conn.state = "open"
               THEN [conn EXCEPT !.view = database]
               ELSE conn
  /\ pc' = "finally"
  /\ UNCHANGED <<probe_vars, run_vars, DB_PARAMS, analyzed_file, database,
                 database_before, ingestion_df, bank_id_map, records, inserted, exc>>

\* finally: if conn: conn.close(), which discards what was not committed
Finally ==
  /\ pc = "finally"
  /\ conn' = IF conn.state = "open" THEN [state |-> "closed", view |-> database]
             ELSE conn
  /\ pc' = "returned"
  /\ UNCHANGED <<probe_vars, run_vars, DB_PARAMS, analyzed_file, database,
                 database_before, ingestion_df, bank_id_map, records, inserted, exc>>

Next ==
  \/ CallCleanText
  \/ CallCleanTextAgain
  \/ CallGetSentiment
  \/ CallGetThemeMap
  \/ LoadCsv
  \/ SentimentAnalysis
  \/ CleanColumn
  \/ AnalyzeBank
  \/ FitNMF
  \/ DominantTopic
  \/ AssignTheme
  \/ AppendBank
  \/ SaveResults
  \/ CheckCredentials
  \/ ReadAnalyzed
  \/ Connect
  \/ CreateTables
  \/ InsertBank
  \/ BuildRecords
  \/ ExecuteMany
  \/ Commit
  \/ Except
  \/ Finally

Spec == Init /\ [][Next]_vars


(* ---------------------------- properties ------------------------------ *)
Running == call = "run_task2_analysis"
Terminated == pc \in {"done", "returned", "raised"}
\* the rows of the banks done, in list order, under their labels in df
AnalyzedRows == Flatten(analyzed_data)
\* the rows of df that hold the bank, by position
RowsOf(bank) == {i \in DOMAIN df : df[i].cols[BankName] = bank}
\* the 1- and 2-grams of the cleaned texts of a frame that MIN_DF and max_df keep
OwnVocabulary(frame) ==
  LET docs == CleanedDocs(frame)
      count(t) == Cardinality({i \in DOMAIN docs : t \in NGrams(docs[i])})
  IN {t \in UNION {NGrams(docs[i]) : i \in DOMAIN docs} :
        count(t) >= MIN_DF /\ 100 * count(t) <= MAX_DF_PERCENT * Len(docs)}
ThemesOf(frame) == {frame[i].cols["Theme"] : i \in DOMAIN frame}

\* C1: an entity with fewer than 5 documents, or with no term left after the
\* pruning, has the theme "General/Not Enough Data" on every review and NMF
\* is never fitted for it.
C1_FallbackWithoutFactorization ==
  \A k \in DOMAIN analyzed_data :
    (Len(analyzed_data[k]) < MIN_DF \/ OwnVocabulary(analyzed_data[k]) = {})
      => /\ \A i \in DOMAIN analyzed_data[k] :
              analyzed_data[k][i].cols["Theme"] = FALLBACK_THEME
         /\ banks[k] \notin nmf_fitted

C1_Witness ==
  /\ pc = "done"
  /\ \E k \in DOMAIN analyzed_data :
       /\ Len(analyzed_data[k]) \in 1..(MIN_DF - 1)
       /\ ThemesOf(analyzed_data[k]) = {FALLBACK_THEME}
  /\ \E k \in DOMAIN analyzed_data :
       /\ Len(analyzed_data[k]) >= MIN_DF
       /\ ThemesOf(analyzed_data[k]) = {FALLBACK_THEME}

SENTIMENTS == {"Positive", "Neutral", "Negative"}
OUTPUT_COLUMNS == INPUT_COLUMNS \cup {"Compound Score", "Sentiment", "Theme"}

\* C2: every record written has a Theme that is a string, a topic name of its
\* entity or the fallback label, and a Sentiment that is Positive, Neutral or
\* Negative; every record holds both fields.
C2_ThemeAndSentimentPresent ==
  /\ \A w \in DOMAIN written : \A i \in DOMAIN written[w] :
       /\ {"Theme", "Sentiment"} \subseteq DOMAIN written[w][i]
       /\ IsStr(written[w][i]["Theme"])
       /\ written[w][i]["Sentiment"] \in SENTIMENTS
  /\ pc = "assign" =>
       \A i \in 1..(doc_i - 1) :
         bank_df[i].cols["Theme"] \in {Str(theme_map[t]) : t \in DOMAIN theme_map}
  /\ \A k \in DOMAIN analyzed_data :
       banks[k] \notin nmf_fitted => ThemesOf(analyzed_data[k]) \subseteq {FALLBACK_THEME}

C2_Witness ==
  /\ pc = "done"
  /\ \E i \in DOMAIN written[1] : written[1][i]["Theme"] = FALLBACK_THEME
  /\ \E i \in DOMAIN written[1] : written[1][i]["Theme"] # FALLBACK_THEME

\* the label the thresholds 0.05 and -0.05 give a score in units of 0.0001
IsThresholdLabel(score, label) ==
  /\ label \in SENTIMENTS
  /\ label = "Positive" <=> score >= 500
  /\ label = "Negative" <=> score <= -500
  /\ label = "Neutral" <=> (score > -500 /\ score < 500)

\* C3: get_sentiment returns Positive exactly from 0.05 up, Negative exactly
\* from -0.05 down and Neutral between, and the Sentiment of every record
\* written is that label of its Compound Score.
C3_SentimentIsThresholdOfScore ==
  /\ (call = "get_sentiment" /\ pc = "returned") => IsThresholdLabel(arg, ret)
  /\ \A w \in DOMAIN written : \A i \in DOMAIN written[w] :
       IsThresholdLabel(written[w][i]["Compound Score"], written[w][i]["Sentiment"])

C3_Witness ==
  /\ call = "get_sentiment"
  /\ pc = "returned"
  /\ arg = 500
  /\ ret = "Positive"


\* the bank of a row of df, and the first row of df that holds a bank
BankAt(label) == df[label + 1].cols[BankName]
FirstRowOf(bank) == CHOOSE i \in RowsOf(bank) : \A j \in RowsOf(bank) : i <= j
\* reviews of one bank with a review of another between them
Interleaved ==
  \E i, j, k \in DOMAIN df :
    i < j /\ j < k /\ BankAt(i - 1) = BankAt(k - 1) /\ BankAt(j - 1) # BankAt(i - 1)
NoBankMissing == \A i \in DOMAIN df : IsStr(df[i].cols[BankName])

\* C4 (as amended): the final collection is grouped by entity, the entities
\* in the order of their first review in the input and the reviews of an
\* entity in input order, and its rows are renumbered from 0.
C4_GroupedByEntityInInputOrder ==
  pc = "done" =>
    /\ Len(final_df) = Len(AnalyzedRows)
    /\ \A i \in DOMAIN final_df :
         /\ final_df[i].index = i - 1
         /\ \A c \in DOMAIN final_df[i].cols :
              final_df[i].cols[c] = AnalyzedRows[i].cols[c]
    /\ \A i, j \in DOMAIN AnalyzedRows :
         i < j =>
           LET a == AnalyzedRows[i].index
               b == AnalyzedRows[j].index
           IN IF BankAt(a) = BankAt(b) THEN a < b
              ELSE FirstRowOf(BankAt(a)) < FirstRowOf(BankAt(b))

C4_Witness ==
  /\ pc = "done"
  /\ Interleaved
  /\ NoBankMissing
  /\ nmf_fitted # {}

\* C4 (as claimed): the final collection holds the reviews in the order of
\* the input, also when the reviews of the entities are interleaved.
C4_InputOrderPreserved ==
  (pc = "done" /\ Interleaved /\ NoBankMissing) =>
    /\ Len(AnalyzedRows) = Len(df)
    /\ \A i \in DOMAIN AnalyzedRows :
         AnalyzedRows[i].index = i - 1 /\ final_df[i].index = AnalyzedRows[i].index

\* C5 (as claimed): one record is written per review of the input, and every
\* review of the input is among them once.
C5_OneRecordPerReview ==
  pc = "done" =>
    /\ Len(written[1]) = Len(input_file.rows)
    /\ \A r \in DOMAIN input_file.rows :
         Cardinality({i \in DOMAIN AnalyzedRows : AnalyzedRows[i].index = r - 1}) = 1

\* the reviews of the input whose text is missing
MissingText == {i \in DOMAIN input_file.rows : input_file.rows[i][ReviewText] \in NA_VALUES}

\* C6 (as claimed): a review whose text is missing has the empty string as
\* its cleaned text, adds no term to the documents of its bank, and the run
\* ends with a record for it and no exception.
C6_MissingTextCleansToEmpty ==
  /\ pc \in {"loop", "nmf", "assign", "done"} =>
       \A i \in MissingText : df[i].cols["Cleaned Text"] = Str(<<>>)
  /\ MissingText # {} => raised = "none"

\* C7 (as claimed): a run on a missing file or on no review reports the
\* condition and ends with nothing written; any other run writes once, after
\* the last bank.  Stated for a missing file and for a file that has its
\* header line; a file of no bytes is left aside.
NoInput == input_file.state = "missing" \/ input_file.rows = <<>>
C7_ReportsAndWritesNothing ==
  (Running /\ input_file.state # "blank") =>
    /\ Len(written) <= 1
    /\ written # <<>> => (pc = "done" /\ bank_i > Len(banks))
    /\ (Terminated /\ NoInput) =>
         (written = <<>> /\ error_printed /\ raised = "none")
    /\ (Terminated /\ ~NoInput) => (pc = "done" /\ Len(written) = 1)

\* C8 (as claimed): every record written holds the five input fields with
\* the values read from the input, and besides them only Compound Score,
\* Sentiment and Theme.
C8_InputFieldsUnchanged ==
  pc = "done" =>
    \A i \in DOMAIN written[1] :
      /\ DOMAIN written[1][i] = OUTPUT_COLUMNS
      /\ \A c \in INPUT_COLUMNS :
           written[1][i][c] = read_csv(input_file.rows)[AnalyzedRows[i].index + 1].cols[c]


\* the rows of df that hold the bank, as a frame
OwnFrame(bank) == SelectSeq(df, LAMBDA row : row.cols[BankName] = bank)
Labels(frame) == [i \in DOMAIN frame |-> frame[i].index]
\* the words of the cleaned texts of a frame
OwnWords(frame) ==
  UNION {Range(Split(frame[i].cols["Cleaned Text"].val)) : i \in DOMAIN frame}
\* the themes the documents of a frame alone allow
OwnThemes(frame) ==
  LET vocabulary == OwnVocabulary(frame)
  IN IF vocabulary = {} THEN {FALLBACK_THEME}
     ELSE {Str(name) :
             name \in UNION {ThemeName(topic, Sorted(vocabulary)) :
                               topic \in [1..Cardinality(vocabulary) -> Weights]}}

AlreadyClean(text) ==
  /\ \A i \in DOMAIN text : IsLowerLetter(text[i]) \/ text[i] = " "
  /\ \A i \in DOMAIN text :
       text[i] = " " => (i > 1 /\ i < Len(text) /\ text[i + 1] # " ")
  /\ \A w \in Range(Split(text)) : w \notin ENGLISH_STOP_WORDS /\ Len(w) >= 3

\* C10: clean_text of the result of clean_text is that result, and
\* clean_text returns a text that is clean already as it is.
C10_CleanTextIdempotent ==
  call = "clean_text" =>
    /\ pc = "returned twice" => ret2 = ret
    /\ (pc # "called" /\ IsStr(arg) /\ AlreadyClean(arg.val)) => ret = arg

C10_Witness ==
  /\ call = "clean_text"
  /\ pc = "returned twice"
  /\ IsStr(arg)
  /\ ret # arg
  /\ Len(Split(ret.val)) >= 1
  /\ ret2 = ret

\* the number of terms in a theme name over a vocabulary of n terms
NameLength(n) == IF n < N_NAME_WORDS THEN n ELSE N_NAME_WORDS
\* the name made of the terms at the positions p of the vocabulary
NameOf(p, names) == Title(Join([j \in DOMAIN p |-> names[p[j]]]))
\* the positions of a topic by descending weight, of equal weights the one
\* first in the vocabulary first
RECURSIVE RankedFrom(_, _)
RankedFrom(topic, left) ==
  IF left = {} THEN <<>>
  ELSE LET best == CHOOSE i \in left : \A j \in left \ {i} :
                     topic[i] > topic[j] \/ (topic[i] = topic[j] /\ i < j)
       IN <<best>> \o RankedFrom(topic, left \ {best})
\* the choices of n terms among those left, each a term of greatest weight
\* among those left when it is chosen
RECURSIVE RankingsFrom(_, _, _)
RankingsFrom(topic, left, n) ==
  IF n = 0 \/ left = {} THEN {<<>>}
  ELSE LET greatest == {i \in left : \A j \in left : topic[j] <= topic[i]}
       IN UNION {{<<i>> \o rest : rest \in RankingsFrom(topic, left \ {i}, n - 1)} :
                   i \in greatest}
\* the choices of terms of highest weight, in an order of descending weight
TopRankings(topic) == RankingsFrom(topic, DOMAIN topic, NameLength(Len(topic)))
ThemeMapReturned == call = "get_theme_map" /\ pc = "returned"

\* C11 (as claimed): get_theme_map names every topic index 0..K-1 with the
\* three terms of highest weight, in descending weight order, space-joined
\* and title-cased, and of terms of equal weight the one first in the
\* vocabulary is ranked first.
C11_TiesInVocabularyOrder ==
  ThemeMapReturned =>
    /\ DOMAIN ret = DOMAIN arg.components
    /\ \A t \in DOMAIN ret :
         LET topic == arg.components[t]
             ranked == RankedFrom(topic, DOMAIN topic)
         IN ret[t] = NameOf(SubSeq(ranked, 1, NameLength(Len(topic))),
                            arg.feature_names)

\* C11: get_theme_map names every topic index 0..K-1 with three terms of
\* highest weight of that topic (all the terms of a vocabulary of fewer than
\* three), in an order of descending weight, space-joined and title-cased;
\* which of several terms of equal weight comes first is not fixed.
C11_TopThreeByWeight ==
  ThemeMapReturned =>
    /\ DOMAIN ret = DOMAIN arg.components
    /\ \A t \in DOMAIN ret :
         \E p \in TopRankings(arg.components[t]) :
           ret[t] = NameOf(p, arg.feature_names)

\* two topics over four terms, a tie for the highest weight in the first,
\* the later term of the tie named first, and a term of lower weight left out
C11_Witness ==
  /\ ThemeMapReturned
  /\ DOMAIN ret = 0..1
  /\ Len(arg.feature_names) = 4
  /\ LET topic == arg.components[0]
     IN \E p \in TopRankings(topic) :
          /\ ret[0] = NameOf(p, arg.feature_names)
          /\ topic[p[1]] = topic[p[2]]
          /\ p[1] > p[2]
          /\ topic[p[2]] > topic[p[3]]
          /\ \E i \in DOMAIN topic \ Range(p) : topic[i] < topic[p[3]]

\* the topics of greatest weight in a row of topic weights
Dominant(row) == {k \in DOMAIN row : \A j \in DOMAIN row : row[j] <= row[k]}
\* the lowest of them
LowestDominant(row) == CHOOSE k \in Dominant(row) : \A j \in Dominant(row) : k <= j
Assigning == pc = "assign" /\ topic_weights # <<>>

\* C12: for an entity with a topic model, the topic index of a review is
\* the lowest index of greatest weight in the review's row of topic weights
\* (index 0 for a row of zeros), that index is a key of the naming table,
\* and the theme the review is given is the name the table holds for it.
C12_LowestDominantTopicNamed ==
  /\ [](Assigning =>
          /\ bank_df[doc_i].cols["Theme_Index"] = LowestDominant(topic_weights)
          /\ LowestDominant(topic_weights) \in DOMAIN theme_map)
  /\ [][(Assigning /\ doc_i' = doc_i + 1) =>
          /\ bank_df'[doc_i].cols["Theme"] =
               Str(theme_map[LowestDominant(topic_weights)])
          /\ "Theme_Index" \notin DOMAIN bank_df'[doc_i].cols]_vars

\* a review whose cleaned text is empty gets topic 0 from a row of zeros, in
\* a bank whose topics differ in name and where an earlier review got a
\* theme other than that of topic 0
C12_Witness ==
  /\ Assigning
  /\ bank_df[doc_i].cols["Cleaned Text"] = Str(<<>>)
  /\ \A t \in DOMAIN topic_weights : topic_weights[t] = 0
  /\ bank_df[doc_i].cols["Theme_Index"] = 0
  /\ \E t \in DOMAIN theme_map : theme_map[t] # theme_map[0]
  /\ \E i \in 1..(doc_i - 1) : bank_df[i].cols["Theme"] # Str(theme_map[0])

Ingesting == call = "ingestion"
\* the run failed: it lacked credentials or an exception was raised
IngestionFailed == ~DB_PARAMS \/ exc # "none"
\* the server holds the tables, every bank of df and, after the reviews it
\* held before, a review for every row of df
EverythingStored ==
  /\ database.tables
  /\ \A i \in DOMAIN ingestion_df : BankId(database.banks, ingestion_df[i].bank) # 0
  /\ Len(records) = Len(ingestion_df)
  /\ database.reviews = database_before.reviews \o records

\* C13: ingestion is all-or-nothing.  What the server holds committed
\* changes only by the commit that follows the creation of the tables and
\* the insertion of every bank and every review; a run that fails (no
\* credentials, no input file, a connection error, an error on a row or on
\* a statement) leaves the server as it was; and when ingestion() returns,
\* a connection that was opened is closed.
C13_AllOrNothing ==
  Ingesting =>
    /\ database # database_before =>
         (pc \in {"finally", "returned"} /\ ~IngestionFailed /\ EverythingStored)
    /\ IngestionFailed => database = database_before
    /\ (pc = "returned" /\ ~IngestionFailed) => EverythingStored
    /\ pc = "returned" => conn.state # "open"
    /\ (pc = "returned" /\ conn.state = "None") =>
         (~DB_PARAMS \/ exc \in {"FileNotFoundError", "OperationalError"})

\* a run that failed on its second review after it had inserted a bank and
\* the first review returns with the connection closed and the server as it
\* was
C13_Witness ==
  /\ Ingesting
  /\ pc = "returned"
  /\ exc = "Error"
  /\ inserted = 1
  /\ Len(records) = 2
  /\ database_before = EmptyDatabase
  /\ database = database_before
  /\ conn.state = "closed"

====
